---------------------------- MODULE Spec2Model ----------------------------
(***************************************************************************)
(* Ruscii-Gen: image -> ASCII-art converter.                               *)
(*                                                                         *)
(* The module models the analysis pipeline of src/src:                     *)
(*   - Sobel::apply                       (image_manip/edge_detect.rs)     *)
(*   - EdgeDownscaler::hist_downscale     (image_manip/edge_processor.rs)  *)
(*     closure by closure, and with its closures as parallel workers       *)
(*   - the luminance quantizer and the compositor of Converter::convert_img*)
(*   - Converter::arr_to_img, the row-parallel renderer                    *)
(*   - the shapes of convert_img's buffers                                 *)
(*   - Converter::convert_img's control flow and                           *)
(*     FontLoader::load_font_from_settings                                 *)
(*                                                                         *)
(* Real numbers are fixed-point integers: theta_norm is kept in units of   *)
(* 1/10000, the density threshold is a pair <<numerator, denominator>>.    *)
(***************************************************************************)
EXTENDS Integers, Sequences, FiniteSets, TLC

VARIABLES
    \* ---- Sobel::apply ----
    stage,           \* position in Sobel::apply
    bufr,            \* the grayscale input buffer, [pixel -> intensity]
    dims,            \* <<h, w>> of the buffer
    gx_arr,          \* horizontal Sobel gradient per pixel
    gy_arr,          \* vertical Sobel gradient per pixel
    theta_arr_norm,  \* normalised gradient angle per pixel, units of 1/10000
    mask_i,          \* index of the next mask of `masks` to apply
    edge_mapping,    \* the edge-class buffer
    \* ---- EdgeDownscaler::hist_downscale ----
    tile_size,       \* pixels per side of a block
    thres_ratio,     \* the density threshold t, <<numerator, denominator>>
    new_size,        \* <<new_h, new_w>>, the shape of the output grid
    ds_edge_arr,     \* the output grid, [cell -> class], or NoGrid before the call
    pending,         \* cells (i, j) whose closure has not run yet
    cur,             \* the cell whose closure is running, or NoCell
    hist,            \* the closure's histogram, [class -> count] (0 = no entry)
    max_val,         \* the closure's max_val
    max_count,       \* the closure's max_count
    pos,             \* number of pixels of the block already scanned
    seen_order,      \* history: the classes of the block in first-seen order
    \* ---- the luminance quantizer of convert_img ----
    q_stage,         \* "start" | "done"
    build,           \* "debug" (overflow checks on) | "release" (wrapping)
    tile_len,        \* pixel_mapping.tile.len()
    px,              \* the u8 pixel value x
    q_result,        \* "none" | "ok" | "panic"
    q_index,         \* the palette index computed, -1 if none
    \* ---- the compositor of convert_img ----
    c_stage,         \* "map" | "combine" | "done"
    c_shape,         \* <<rows, cols>> of the two grids
    c_class,         \* the grid returned by hist_downscale, [cell -> class]
    qt_tile_arr,     \* the tile grid, [cell -> glyph]
    c_edge,          \* ds_edge_arr of convert_img, [cell -> glyph]
    c_todo,          \* cells the par_for_each has not visited yet
    \* ---- convert_img and FontLoader::load_font_from_settings ----
    cv_pc,           \* position in convert_img
    cv_result,       \* "none" | "Ok" | "FileError" | "ImageError" | "InvalidFont" | "panic"
    in_file,         \* what `path` holds
    out_ok,          \* whether ascii_img.save(out) succeeds
    font_path,       \* font_settings.font_path
    font_files,      \* [path -> "missing" | "garbage" | "valid"]
    fl_pc,           \* position in load_font_from_settings
    fl_result,       \* "none" | "configured" | "fallback" | "FileError" | "InvalidFont"
    cfg_parse,       \* history: "untried" | "ok" | "failed", parse of the configured font
    fb_parse,        \* history: "untried" | "ok" | "failed", parse of the fallback font
    fallback_tries,  \* history: number of reads of the fallback font "font.ttf"
    \* ---- Converter::arr_to_img ----
    r_shape,         \* arr.shape(): <<rows, cols>> of the character grid
    font_size,       \* font_settings.font_size
    r_arr,           \* the character grid, [cell -> glyph]
    row_pc,          \* [row -> "draw" | "merge" | "done"], one worker per row
    local_bufr,      \* [row -> its row buffer, or NoGrid]
    ascii_bufr,      \* the shared output image, [<<x, y>> -> colour]
    put_count,       \* history: [<<x, y>> -> number of put_pixel calls on it]
    merge_order,     \* history: the rows in the order they took the mutex
    r_panic,         \* a put_pixel fell outside the image
    \* ---- hist_downscale, one worker per cell ----
    qt_edge_arr,     \* the edge-class buffer, [pixel -> class], read-only
    w_pc,            \* [cell -> "scan" | "lock" | "write" | "done"], the closure of the cell
    w_max_val,       \* [cell -> max_val of the closure of the cell]
    w_read,          \* history: [cell -> the pixels its closure has read]
    mutex,           \* the cell whose closure holds the mutex, or NoCell
    write_log,       \* history: <<worker, written cell>> in the order of the writes
    returned,        \* the grid returned by hist_downscale, NoGrid before
    \* ---- the shapes of convert_img's buffers ----
    sh_pc,           \* position in convert_img, lines 158-210
    img_size,        \* <<width, height>> of ori_img
    sh_font_size,    \* font_settings.font_size
    new_w,           \* new_w of convert_img
    new_h,           \* new_h of convert_img
    tile_shape,      \* shape of qt_tile_arr, <<rows, cols>>
    edge_shape,      \* shape of qt_edge_arr, <<rows, cols>>
    grid_shape,      \* shape of the grid returned by hist_downscale
    sh_result        \* "none" | "ok" | "panic"

sobelVars == <<stage, bufr, dims, gx_arr, gy_arr, theta_arr_norm, mask_i, edge_mapping>>

downVars == <<tile_size, thres_ratio, new_size, ds_edge_arr, pending, cur, hist,
              max_val, max_count, pos, seen_order>>

quantVars == <<q_stage, build, tile_len, px, q_result, q_index>>

compVars == <<c_stage, c_shape, c_class, qt_tile_arr, c_edge, c_todo>>

convVars == <<cv_pc, cv_result, in_file, out_ok>>

fontVars == <<font_path, font_files, fl_pc, fl_result, cfg_parse, fb_parse, fallback_tries>>

renderVars == <<r_shape, font_size, r_arr, row_pc, local_bufr, ascii_bufr, put_count,
                merge_order, r_panic>>

parVars == <<qt_edge_arr, w_pc, w_max_val, w_read, mutex, write_log, returned>>

shapeVars == <<sh_pc, img_size, sh_font_size, new_w, new_h, tile_shape, edge_shape,
               grid_shape, sh_result>>

vars == <<sobelVars, downVars, quantVars, compVars, convVars, fontVars, renderVars,
          parVars, shapeVars>>

(***************************************************************************)
(* Bounds of the model                                                     *)
(***************************************************************************)
ImgH == 3
ImgW == 4
\* hist_downscale: the edge-class buffer holds at most MaxPixels pixels and
\* the output grid at most MaxRows x MaxCols cells.
MaxPixels == 9
MaxRows == 1
MaxCols == 2
\* The compositor runs on CompSide x CompSide grids.
CompSide == 3
\* arr_to_img: character grids of at most MaxCharRows x MaxCharCols cells,
\* font sizes of at most MaxFont pixels.
MaxCharRows == 2
MaxCharCols == 2
MaxFont == 2
\* hist_downscale with parallel workers: blocks of at most ParTile pixels per
\* side, output grids of at most ParCells cells.
ParTile == 2
ParCells == 3
\* Shapes of convert_img: images of at most MaxSide x MaxSide pixels, font
\* sizes of at most MaxCell pixels.
MaxSide == 6
MaxCell == 3
\* f32 has a significand of 24 bits.
F32Bits == 24

(***************************************************************************)
(* Sobel::apply                                                            *)
(***************************************************************************)
\* Fixed-point images of the f32 literals of the masks (units of 1/10000).
One  == 10000
Half == 5000
T095 == 9500
T025 == 2500
T027 == 2700
T075 == 7500
T077 == 7700
T028 == 2800
T055 == 5500
T078 == 7800

\* The two intensities of the synthetic images: black and white.
PixVals == {0, 255}

Pix(hw) == (0 .. hw[1] - 1) \X (0 .. hw[2] - 1)

Clamp(i, n) == IF i < 0 THEN 0 ELSE IF i > n - 1 THEN n - 1 ELSE i

\* imageproc::gradients::horizontal_sobel: correlation with
\*   -1 0 1 / -2 0 2 / -1 0 1, coordinates clamped at the border.
HorizontalSobel(b, hw) ==
    [p \in Pix(hw) |->
        LET at(dr, dc) == b[<<Clamp(p[1] + dr, hw[1]), Clamp(p[2] + dc, hw[2])>>]
        IN  (at(-1, 1) - at(-1, -1)) + 2 * (at(0, 1) - at(0, -1))
              + (at(1, 1) - at(1, -1))]

\* imageproc::gradients::vertical_sobel: correlation with
\*   -1 -2 -1 / 0 0 0 / 1 2 1, coordinates clamped at the border.
VerticalSobel(b, hw) ==
    [p \in Pix(hw) |->
        LET at(dr, dc) == b[<<Clamp(p[1] + dr, hw[1]), Clamp(p[2] + dc, hw[2])>>]
        IN  (at(1, -1) - at(-1, -1)) + 2 * (at(1, 0) - at(-1, 0))
              + (at(1, 1) - at(-1, 1))]

\* (atan2(gy, gx) / PI) * 0.5 + 0.5 in f32, rounded to 1/10000, for gradients
\* gy, gx in {-4..4} * 255 (every Sobel response of a black-and-white image).
\* Row index gy/255 + 5, column index gx/255 + 5.
ThetaTable ==
    << << 1250,  1476,  1762,  2110,  2500,  2890,  3238,  3524,  3750>>,
       << 1024,  1250,  1564,  1988,  2500,  3012,  3436,  3750,  3976>>,
       <<  738,   936,  1250,  1762,  2500,  3238,  3750,  4064,  4262>>,
       <<  390,   512,   738,  1250,  2500,  3750,  4262,  4488,  4610>>,
       <<10000, 10000, 10000, 10000,  5000,  5000,  5000,  5000,  5000>>,
       << 9610,  9488,  9262,  8750,  7500,  6250,  5738,  5512,  5390>>,
       << 9262,  9064,  8750,  8238,  7500,  6762,  6250,  5936,  5738>>,
       << 8976,  8750,  8436,  8012,  7500,  6988,  6564,  6250,  6024>>,
       << 8750,  8524,  8238,  7890,  7500,  7110,  6762,  6476,  6250>> >>

ThetaNorm(gx, gy) == ThetaTable[(gy \div 255) + 5][(gx \div 255) + 5]

SpaceMask(x) == x = Half
VertMask(x)  == T095 <= x /\ x <= One
HoriMask(x)  == ((x >= T025) /\ (x < T027)) \/ ((x >= T075) /\ (x < T077))
DiagMask1(x) ==
    /\ (((x >= 0) /\ (x < T028)) \/ ((x >= T055) /\ (x < T078)))
    /\ ~((x >= T075) /\ (x < T077))
    /\ ~(x = Half)
    /\ ~((x >= T025) /\ (x < T027))
DiagMask2(x) ==
    /\ (((x >= T028) /\ (x < T055)) \/ ((x >= T078) /\ (x < One)))
    /\ ~((x >= T075) /\ (x < T077))
    /\ ~(x = Half)
    /\ ~((x >= T025) /\ (x < T027))

\* masks[k] = <<mask number, class value>>, in the order of the vec! literal.
MaskValues == <<0, 2, 1, 3, 4>>

MaskAt(k, x) ==
    CASE k = 1 -> SpaceMask(x)
      [] k = 2 -> VertMask(x)
      [] k = 3 -> HoriMask(x)
      [] k = 4 -> DiagMask1(x)
      [] k = 5 -> DiagMask2(x)

Zeros(hw) == [p \in Pix(hw) |-> 0]

\* Lines 40-44: gx, gy and the dimensions.
Gradients ==
    /\ stage = "start"
    /\ gx_arr' = HorizontalSobel(bufr, dims)
    /\ gy_arr' = VerticalSobel(bufr, dims)
    /\ stage' = "theta"
    /\ UNCHANGED <<bufr, dims, theta_arr_norm, mask_i, edge_mapping>>
    /\ UNCHANGED <<downVars, quantVars, compVars, convVars, fontVars, renderVars>>
    /\ UNCHANGED <<parVars, shapeVars>>

\* Lines 46-56: the elementwise par_for_each computing theta_norm.
Theta ==
    /\ stage = "theta"
    /\ theta_arr_norm' = [p \in Pix(dims) |-> ThetaNorm(gx_arr[p], gy_arr[p])]
    /\ edge_mapping' = Zeros(dims)
    /\ mask_i' = 1
    /\ stage' = "masks"
    /\ UNCHANGED <<bufr, dims, gx_arr, gy_arr>>
    /\ UNCHANGED <<downVars, quantVars, compVars, convVars, fontVars, renderVars>>
    /\ UNCHANGED <<parVars, shapeVars>>

\* Lines 87-95: one iteration of `for (mask, value) in masks`.
ApplyMask ==
    /\ stage = "masks"
    /\ mask_i <= Len(MaskValues)
    /\ edge_mapping' = [p \in Pix(dims) |->
                          IF MaskAt(mask_i, theta_arr_norm[p])
                          THEN MaskValues[mask_i]
                          ELSE edge_mapping[p]]
    /\ mask_i' = mask_i + 1
    /\ UNCHANGED <<stage, bufr, dims, gx_arr, gy_arr, theta_arr_norm>>
    /\ UNCHANGED <<downVars, quantVars, compVars, convVars, fontVars, renderVars>>
    /\ UNCHANGED <<parVars, shapeVars>>

\* Line 97: Ok(arr_to_bufr(&edge_mapping)).
SobelReturn ==
    /\ stage = "masks"
    /\ mask_i > Len(MaskValues)
    /\ stage' = "done"
    /\ UNCHANGED <<bufr, dims, gx_arr, gy_arr, theta_arr_norm, mask_i, edge_mapping>>
    /\ UNCHANGED <<downVars, quantVars, compVars, convVars, fontVars, renderVars>>
    /\ UNCHANGED <<parVars, shapeVars>>

\* Sobel::apply on every black-and-white ImgH x ImgW buffer.
SobelInit ==
    /\ dims = <<ImgH, ImgW>>
    /\ bufr \in [Pix(<<ImgH, ImgW>>) -> PixVals]
    /\ stage = "start"
    /\ gx_arr = Zeros(dims)
    /\ gy_arr = Zeros(dims)
    /\ theta_arr_norm = Zeros(dims)
    /\ mask_i = 1
    /\ edge_mapping = Zeros(dims)

\* The classification part of Sobel::apply (lines 58-97) on one pixel whose
\* theta_norm is any value of [0, 1].
ClassifyInit ==
    /\ dims = <<1, 1>>
    /\ bufr = Zeros(dims)
    /\ gx_arr = Zeros(dims)
    /\ gy_arr = Zeros(dims)
    /\ theta_arr_norm \in [Pix(<<1, 1>>) -> 0 .. One]
    /\ stage = "masks"
    /\ mask_i = 1
    /\ edge_mapping = Zeros(dims)

SobelIdle ==
    /\ dims = <<1, 1>>
    /\ bufr = Zeros(dims)
    /\ gx_arr = Zeros(dims)
    /\ gy_arr = Zeros(dims)
    /\ theta_arr_norm = Zeros(dims)
    /\ stage = "idle"
    /\ mask_i = 1
    /\ edge_mapping = Zeros(dims)

(***************************************************************************)
(* EdgeDownscaler::hist_downscale                                          *)
(*                                                                         *)
(* The edge-class buffer is read-only and every pixel of it belongs to one *)
(* block, so it is read once: the value of a pixel is drawn when the scan  *)
(* reaches it.  The closures of the cells run in any order (rayon); the    *)
(* write to ds_edge_arr is made under the mutex.                           *)
(***************************************************************************)
Classes == 0 .. 4

NoCell == <<>>
NoGrid == <<>>

Cells(size) == (0 .. size[1] - 1) \X (0 .. size[2] - 1)

EmptyHist == [c \in Classes |-> 0]

\* hist.values().filter(|&&x| x != 0).count()
Distinct(h) == Cardinality({c \in Classes : h[c] # 0})

\* Variants of the gate: a strict comparison, and the side of the block in
\* place of its area.
StrictGate(h, ts, t) == Distinct(h) * t[2] > t[1] * (ts * ts)
GateBySide(h, ts, t) == Distinct(h) * t[2] >= t[1] * ts

\* count as f32 / (tile_size * tile_size) as f32 >= thres_ratio, with
\* thres_ratio = t[1] / t[2].
PassesGate(h, ts, t) == Distinct(h) * t[2] >= t[1] * (ts * ts)

\* Variant of the comparison: a count that draws level replaces the mode.
ExceedsOrTies(count, best) == count >= best

\* if hist[&value] > max_count
Exceeds(count, best) == count > best

\* Lines 27-35: the closure of cell c starts; its locals are fresh.
StartCell ==
    /\ cur = NoCell
    /\ \E c \in pending :
        /\ cur' = c
        /\ pending' = pending \ {c}
    /\ hist' = EmptyHist
    /\ max_val' = 0
    /\ max_count' = 0
    /\ pos' = 0
    /\ seen_order' = <<>>
    /\ UNCHANGED <<tile_size, thres_ratio, new_size, ds_edge_arr>>
    /\ UNCHANGED <<sobelVars, quantVars, compVars, convVars, fontVars, renderVars>>
    /\ UNCHANGED <<parVars, shapeVars>>

\* Lines 37-45: one iteration of `for &value in tile.iter()`.
ScanPixel ==
    /\ cur # NoCell
    /\ pos < tile_size * tile_size
    /\ \E value \in Classes :
        LET h == [hist EXCEPT ![value] = @ + 1] IN
        /\ hist' = h
        /\ IF Exceeds(h[value], max_count)
           THEN max_count' = h[value] /\ max_val' = value
           ELSE UNCHANGED <<max_count, max_val>>
        /\ seen_order' = IF hist[value] = 0 THEN Append(seen_order, value)
                         ELSE seen_order
    /\ pos' = pos + 1
    /\ UNCHANGED <<tile_size, thres_ratio, new_size, ds_edge_arr, pending, cur>>
    /\ UNCHANGED <<sobelVars, quantVars, compVars, convVars, fontVars, renderVars>>
    /\ UNCHANGED <<parVars, shapeVars>>

\* Lines 47-55: the density gate and the write under the mutex; the closure ends.
GateWrite ==
    /\ cur # NoCell
    /\ pos = tile_size * tile_size
    /\ ds_edge_arr' = IF PassesGate(hist, tile_size, thres_ratio)
                      THEN [ds_edge_arr EXCEPT ![cur] = max_val]
                      ELSE ds_edge_arr
    /\ cur' = NoCell
    /\ UNCHANGED <<tile_size, thres_ratio, new_size, pending, hist, max_val,
                   max_count, pos, seen_order>>
    /\ UNCHANGED <<sobelVars, quantVars, compVars, convVars, fontVars, renderVars>>
    /\ UNCHANGED <<parVars, shapeVars>>

\* The threshold ratios tried: 0, 1/2 and 1.
ThresRatios == {<<0, 1>>, <<1, 2>>, <<1, 1>>}

\* Line 22: ds_edge_arr = zeros(new_size); no closure has run.
DownInit ==
    /\ tile_size \in 1 .. MaxPixels
    /\ new_size \in (1 .. MaxRows) \X (1 .. MaxCols)
    /\ tile_size * tile_size * new_size[1] * new_size[2] <= MaxPixels
    /\ thres_ratio \in ThresRatios
    /\ ds_edge_arr = [c \in Cells(new_size) |-> 0]
    /\ pending = Cells(new_size)
    /\ cur = NoCell
    /\ hist = EmptyHist
    /\ max_val = 0
    /\ max_count = 0
    /\ pos = 0
    /\ seen_order = <<>>

DownIdle ==
    /\ tile_size = 1
    /\ new_size = <<0, 0>>
    /\ thres_ratio = <<0, 1>>
    /\ ds_edge_arr = NoGrid
    /\ pending = {}
    /\ cur = NoCell
    /\ hist = EmptyHist
    /\ max_val = 0
    /\ max_count = 0
    /\ pos = 0
    /\ seen_order = <<>>

(***************************************************************************)
(* EdgeDownscaler::hist_downscale, the closures as parallel workers        *)
(*                                                                         *)
(* rayon runs one closure per cell (i, j).  A closure's scan touches only  *)
(* its own locals and the read-only buffer qt_edge_arr, so it is one step; *)
(* taking the mutex and the write under it are steps of their own, and the *)
(* workers' steps interleave in every order.                               *)
(***************************************************************************)
\* (i * tile_size) as usize, the bound of a slice range
SliceBound(k, ts) == k * ts

\* The pixels of s![i*ts .. (i+1)*ts, j*ts .. (j+1)*ts].
TilePixels(c, ts) ==
    (SliceBound(c[1], ts) .. SliceBound(c[1] + 1, ts) - 1)
        \X (SliceBound(c[2], ts) .. SliceBound(c[2] + 1, ts) - 1)

\* tile.iter(): the values of the slice in row-major order.
TileIter(buf, c, ts) ==
    LET r0 == SliceBound(c[1], ts)
        c0 == SliceBound(c[2], ts)
        nr == SliceBound(c[1] + 1, ts) - r0
        nc == SliceBound(c[2] + 1, ts) - c0
    IN  [k \in 1 .. nr * nc |-> buf[<<r0 + ((k - 1) \div nc), c0 + ((k - 1) % nc)>>]]

\* Lines 27-29: the fresh locals of a closure.
FreshLocals == [hist |-> EmptyHist, max_val |-> 0, max_count |-> 0]

\* Lines 37-45: one iteration of `for &value in tile.iter()` on the locals.
ScanValue(loc, value) ==
    LET h == [loc.hist EXCEPT ![value] = @ + 1] IN
    IF Exceeds(h[value], loc.max_count)
    THEN [hist |-> h, max_val |-> value, max_count |-> h[value]]
    ELSE [hist |-> h, max_val |-> loc.max_val, max_count |-> loc.max_count]

\* Lines 27-45: the closure's locals after the first n values of the tile.
\* The locals before the n-th iteration are bound once, as the only element
\* of a set.
RECURSIVE ScanTile(_, _)
ScanTile(tile, n) ==
    IF n = 0 THEN FreshLocals
    ELSE CHOOSE loc \in {ScanValue(prev, tile[n]) : prev \in {ScanTile(tile, n - 1)}} : TRUE

\* Variant of the written index: the column of the cell is dropped.
RowIndex(c) == <<c[1], 0>>

\* ds_edge_arr[(i as usize, j as usize)]
WriteIndex(c) == c

\* Lines 27-50: worker c scans its tile and evaluates the density gate.
ScanTileOf ==
    \E c \in Cells(new_size) :
        /\ w_pc[c] = "scan"
        /\ \E tile \in {TileIter(qt_edge_arr, c, tile_size)} :
           \E loc \in {ScanTile(tile, Len(tile))} :
               /\ w_max_val' = [w_max_val EXCEPT ![c] = loc.max_val]
               /\ w_pc' = [w_pc EXCEPT ![c] =
                              IF PassesGate(loc.hist, tile_size, thres_ratio)
                              THEN "lock" ELSE "done"]
        /\ w_read' = [w_read EXCEPT ![c] = TilePixels(c, tile_size)]
        /\ UNCHANGED <<qt_edge_arr, mutex, write_log, returned>>
        /\ UNCHANGED <<sobelVars, downVars, quantVars, compVars, convVars, fontVars,
                       renderVars, shapeVars>>

\* Line 53: ds_edge_arr.lock().unwrap() returns once the mutex is free.
Lock ==
    \E c \in Cells(new_size) :
        /\ w_pc[c] = "lock"
        /\ mutex = NoCell
        /\ mutex' = c
        /\ w_pc' = [w_pc EXCEPT ![c] = "write"]
        /\ UNCHANGED <<qt_edge_arr, w_max_val, w_read, write_log, returned>>
        /\ UNCHANGED <<sobelVars, downVars, quantVars, compVars, convVars, fontVars,
                       renderVars, shapeVars>>

\* Lines 54-55: the write through the guard; the guard is dropped at the end
\* of the block.
WriteUnlock ==
    \E c \in Cells(new_size) :
        /\ w_pc[c] = "write"
        /\ mutex = c
        /\ ds_edge_arr' = [ds_edge_arr EXCEPT ![WriteIndex(c)] = w_max_val[c]]
        /\ write_log' = Append(write_log, <<c, WriteIndex(c)>>)
        /\ mutex' = NoCell
        /\ w_pc' = [w_pc EXCEPT ![c] = "done"]
        /\ UNCHANGED <<qt_edge_arr, w_max_val, w_read, returned>>
        /\ UNCHANGED <<tile_size, thres_ratio, new_size, pending, cur, hist, max_val,
                       max_count, pos, seen_order>>
        /\ UNCHANGED <<sobelVars, quantVars, compVars, convVars, fontVars,
                       renderVars, shapeVars>>

\* Line 59: for_each has joined every closure; the grid is taken out of the
\* Arc and the mutex and returned.
ParReturn ==
    /\ returned = NoGrid
    /\ \A c \in Cells(new_size) : w_pc[c] = "done"
    /\ returned' = ds_edge_arr
    /\ UNCHANGED <<qt_edge_arr, w_pc, w_max_val, w_read, mutex, write_log>>
    /\ UNCHANGED <<sobelVars, downVars, quantVars, compVars, convVars, fontVars,
                   renderVars, shapeVars>>

\* The shapes of the output grid tried: at most ParCells cells.
ParShapes == {sz \in (1 .. ParCells) \X (1 .. ParCells) : sz[1] * sz[2] <= ParCells}

\* The edge-class buffers tried, of h x w pixels: ramps over the classes,
\* one class everywhere, a checkerboard of a class on class 0, and a buffer
\* whose left half is class 0 and whose right half is a checkerboard.
ParBuffers(h, w) ==
    LET P == (0 .. h - 1) \X (0 .. w - 1) IN
    {[p \in P |-> (p[1] * w + p[2] + k) % 5] : k \in Classes}
    \cup {[p \in P |-> a] : a \in Classes}
    \cup {[p \in P |-> IF (p[1] + p[2]) % 2 = 0 THEN a ELSE 0] : a \in Classes \ {0}}
    \cup {[p \in P |-> IF p[2] * 2 < w THEN 0 ELSE ((p[1] + p[2]) % 2) * a] :
              a \in Classes \ {0}}

\* Lines 22-25: the zeroed grid behind Arc<Mutex<..>>, one closure per cell.
ParInit ==
    /\ tile_size \in 1 .. ParTile
    /\ new_size \in ParShapes
    /\ thres_ratio \in ThresRatios
    /\ qt_edge_arr \in ParBuffers(new_size[1] * tile_size, new_size[2] * tile_size)
    /\ ds_edge_arr = [c \in Cells(new_size) |-> 0]
    /\ pending = {}
    /\ cur = NoCell
    /\ hist = EmptyHist
    /\ max_val = 0
    /\ max_count = 0
    /\ pos = 0
    /\ seen_order = <<>>
    /\ w_pc = [c \in Cells(new_size) |-> "scan"]
    /\ w_max_val = [c \in Cells(new_size) |-> 0]
    /\ w_read = [c \in Cells(new_size) |-> {}]
    /\ mutex = NoCell
    /\ write_log = <<>>
    /\ returned = NoGrid

ParIdle ==
    /\ qt_edge_arr = NoGrid
    /\ w_pc = <<>>
    /\ w_max_val = <<>>
    /\ w_read = <<>>
    /\ mutex = NoCell
    /\ write_log = <<>>
    /\ returned = NoGrid

(***************************************************************************)
(* The luminance quantizer (convert_img, lines 176-181)                    *)
(***************************************************************************)
U8 == 256
MaxPx == 255

\* CharacterSet::get_tile_mapping_size: self.tile.len() as u8.
TileMappingSize(n) == n % U8

\* floor((x as f32 / 255.0) * m as f32) as usize.  For all x, m in 0..255 the
\* f32 result equals the exact floor of x * m / 255.
QuantIndex(x, m) == (x * m) \div MaxPx

\* Lines 176-181 for one pixel.
Quantize ==
    /\ q_stage = "start"
    /\ LET size == TileMappingSize(tile_len) IN
       IF size = 0 /\ build = "debug"
       THEN \* size - 1 on u8: attempt to subtract with overflow
            q_result' = "panic" /\ q_index' = -1
       ELSE LET m   == (size - 1) % U8
                idx == QuantIndex(px, m)
            IN  IF idx >= tile_len
                THEN \* self.pixel_mapping.tile[index]: index out of bounds
                     q_result' = "panic" /\ q_index' = idx
                ELSE q_result' = "ok" /\ q_index' = idx
    /\ q_stage' = "done"
    /\ UNCHANGED <<build, tile_len, px>>
    /\ UNCHANGED <<sobelVars, downVars, compVars, convVars, fontVars, renderVars>>
    /\ UNCHANGED <<parVars, shapeVars>>

\* Palette sizes tried: 13 is CharacterSet::default's.
PaletteSizes == {1, 2, 13, 255, 256, 257, 300}

QuantInit ==
    /\ q_stage = "start"
    /\ build \in {"debug", "release"}
    /\ tile_len \in PaletteSizes
    /\ px \in 0 .. MaxPx
    /\ q_result = "none"
    /\ q_index = -1

QuantIdle ==
    /\ q_stage = "idle"
    /\ build = "release"
    /\ tile_len = 1
    /\ px = 0
    /\ q_result = "none"
    /\ q_index = -1

(***************************************************************************)
(* The compositor (convert_img, lines 195-210)                             *)
(***************************************************************************)
\* CharacterSet.edge
EdgePalette == <<" ", "_", "|", "/", "\\">>

\* CharacterSet::default().tile
TilePalette == <<" ", ".", ",", "*", ":", "c", "o", "P", "O", "?", "%", "&", "@">>

\* self.pixel_mapping.edge[x as usize]
EdgeGlyph(x) == EdgePalette[x + 1]

\* Variant of the test: the cell is compared with the wrong palette entry.
IsUnderscore(ch) == ch = "_"

\* *edge_val == ' '
IsBlank(ch) == ch = " "

\* Line 201: .mapv(|x| self.pixel_mapping.edge[x as usize])
MapEdge ==
    /\ c_stage = "map"
    /\ c_edge' = [c \in Cells(c_shape) |-> EdgeGlyph(c_class[c])]
    /\ c_todo' = Cells(c_shape)
    /\ c_stage' = "combine"
    /\ UNCHANGED <<c_shape, c_class, qt_tile_arr>>
    /\ UNCHANGED <<sobelVars, downVars, quantVars, convVars, fontVars, renderVars>>
    /\ UNCHANGED <<parVars, shapeVars>>

\* Lines 204-210: the par_for_each visits one cell.
Combine ==
    /\ c_stage = "combine"
    /\ \E c \in c_todo :
        /\ c_edge' = IF IsBlank(c_edge[c])
                     THEN [c_edge EXCEPT ![c] = qt_tile_arr[c]]
                     ELSE c_edge
        /\ c_todo' = c_todo \ {c}
    /\ UNCHANGED <<c_stage, c_shape, c_class, qt_tile_arr>>
    /\ UNCHANGED <<sobelVars, downVars, quantVars, convVars, fontVars, renderVars>>
    /\ UNCHANGED <<parVars, shapeVars>>

\* The par_for_each has visited every cell.
CombineDone ==
    /\ c_stage = "combine"
    /\ c_todo = {}
    /\ c_stage' = "done"
    /\ UNCHANGED <<c_shape, c_class, qt_tile_arr, c_edge, c_todo>>
    /\ UNCHANGED <<sobelVars, downVars, quantVars, convVars, fontVars, renderVars>>
    /\ UNCHANGED <<parVars, shapeVars>>

\* Edge-class grids tried: [[0,1,0],[2,0,3],[0,0,4]] (0 outside its 3 x 3),
\* and the five grids (i + j + k) % 5.
ExampleRows == <<<<0, 1, 0>>, <<2, 0, 3>>, <<0, 0, 4>>>>

ExampleGrid(shape) ==
    [c \in Cells(shape) |->
        IF c[1] < 3 /\ c[2] < 3 THEN ExampleRows[c[1] + 1][c[2] + 1] ELSE 0]

ClassGrids(shape) ==
    {ExampleGrid(shape)}
      \cup {[c \in Cells(shape) |-> (c[1] + c[2] + k) % 5] : k \in Classes}

\* Tile grids tried: all '*', and the default palette in turn (' ' first).
TileGrids(shape) ==
    { [c \in Cells(shape) |-> "*"],
      [c \in Cells(shape) |->
          TilePalette[((c[1] * shape[2] + c[2]) % Len(TilePalette)) + 1]] }

CompInit ==
    /\ c_stage = "map"
    /\ c_shape = <<CompSide, CompSide>>
    /\ c_class \in ClassGrids(c_shape)
    /\ qt_tile_arr \in TileGrids(c_shape)
    /\ c_edge = NoGrid
    /\ c_todo = {}

CompIdle ==
    /\ c_stage = "idle"
    /\ c_shape = <<0, 0>>
    /\ c_class = NoGrid
    /\ qt_tile_arr = NoGrid
    /\ c_edge = NoGrid
    /\ c_todo = {}

(***************************************************************************)
(* FontLoader::load_font_from_settings                                     *)
(***************************************************************************)
DefaultFont == "font.ttf"

FontPaths == {"font.ttf", "custom.ttf"}

FileStates == {"missing", "garbage", "valid"}

\* Variant: a configured font that cannot be read also goes to the fallback.
ReadErrorFallsBack == "fb_read"

\* fs::read(&settings.font_path)? : the io::Error leaves the function.
OnConfiguredReadError == "FileError"

\* Line 36: fs::read(&settings.font_path)?
FontReadConfigured ==
    /\ fl_pc = "read"
    /\ IF font_files[font_path] = "missing"
       THEN IF OnConfiguredReadError = "FileError"
            THEN fl_pc' = "done" /\ fl_result' = "FileError"
            ELSE fl_pc' = OnConfiguredReadError /\ UNCHANGED fl_result
       ELSE fl_pc' = "parse" /\ UNCHANGED fl_result
    /\ UNCHANGED <<font_path, font_files, cfg_parse, fb_parse, fallback_tries>>
    /\ UNCHANGED <<sobelVars, downVars, quantVars, compVars, convVars, renderVars>>
    /\ UNCHANGED <<parVars, shapeVars>>

\* Lines 37-39: match FontVec::try_from_vec(font_dat)
FontParseConfigured ==
    /\ fl_pc = "parse"
    /\ IF font_files[font_path] = "valid"
       THEN cfg_parse' = "ok" /\ fl_pc' = "done" /\ fl_result' = "configured"
       ELSE cfg_parse' = "failed" /\ fl_pc' = "fb_read" /\ UNCHANGED fl_result
    /\ UNCHANGED <<font_path, font_files, fb_parse, fallback_tries>>
    /\ UNCHANGED <<sobelVars, downVars, quantVars, compVars, convVars, renderVars>>
    /\ UNCHANGED <<parVars, shapeVars>>

\* Line 41: fs::read("font.ttf")?
FontReadFallback ==
    /\ fl_pc = "fb_read"
    /\ fallback_tries' = fallback_tries + 1
    /\ IF font_files[DefaultFont] = "missing"
       THEN fl_pc' = "done" /\ fl_result' = "FileError"
       ELSE fl_pc' = "fb_parse" /\ UNCHANGED fl_result
    /\ UNCHANGED <<font_path, font_files, cfg_parse, fb_parse>>
    /\ UNCHANGED <<sobelVars, downVars, quantVars, compVars, convVars, renderVars>>
    /\ UNCHANGED <<parVars, shapeVars>>

\* Line 42: FontVec::try_from_vec(fallback_font_dat)?
FontParseFallback ==
    /\ fl_pc = "fb_parse"
    /\ IF font_files[DefaultFont] = "valid"
       THEN fb_parse' = "ok" /\ fl_result' = "fallback"
       ELSE fb_parse' = "failed" /\ fl_result' = "InvalidFont"
    /\ fl_pc' = "done"
    /\ UNCHANGED <<font_path, font_files, cfg_parse, fallback_tries>>
    /\ UNCHANGED <<sobelVars, downVars, quantVars, compVars, convVars, renderVars>>
    /\ UNCHANGED <<parVars, shapeVars>>

FontInit ==
    /\ font_path \in FontPaths
    /\ font_files \in [FontPaths -> FileStates]
    /\ fl_pc = "idle"
    /\ fl_result = "none"
    /\ cfg_parse = "untried"
    /\ fb_parse = "untried"
    /\ fallback_tries = 0

FontIdle ==
    /\ font_path = DefaultFont
    /\ font_files = [f \in FontPaths |-> "valid"]
    /\ fl_pc = "idle"
    /\ fl_result = "none"
    /\ cfg_parse = "untried"
    /\ fb_parse = "untried"
    /\ fallback_tries = 0

(***************************************************************************)
(* Converter::convert_img, control flow                                    *)
(***************************************************************************)
\* What `path` can hold: no file, a file whose read fails, a file of no
\* known image format, a file of a known format that does not decode, an image.
InFiles == {"missing", "unreadable", "unknown_format", "undecodable", "image"}

\* Line 153: ImageReader::open(path)?
OpenInput ==
    /\ cv_pc = "open"
    /\ IF in_file = "missing"
       THEN cv_pc' = "returned" /\ cv_result' = "FileError"
       ELSE cv_pc' = "guess" /\ UNCHANGED cv_result
    /\ UNCHANGED <<in_file, out_ok>>
    /\ UNCHANGED <<sobelVars, downVars, quantVars, compVars, fontVars, renderVars>>
    /\ UNCHANGED <<parVars, shapeVars>>

\* Lines 154-155: .with_guessed_format().unwrap()
GuessFormat ==
    /\ cv_pc = "guess"
    /\ IF in_file = "unreadable"
       THEN cv_pc' = "panicked" /\ cv_result' = "panic"
       ELSE cv_pc' = "decode" /\ UNCHANGED cv_result
    /\ UNCHANGED <<in_file, out_ok>>
    /\ UNCHANGED <<sobelVars, downVars, quantVars, compVars, fontVars, renderVars>>
    /\ UNCHANGED <<parVars, shapeVars>>

\* Lines 156-157: .decode().unwrap()
Decode ==
    /\ cv_pc = "decode"
    /\ IF in_file \in {"unknown_format", "undecodable"}
       THEN cv_pc' = "panicked" /\ cv_result' = "panic"
       ELSE cv_pc' = "analyse" /\ UNCHANGED cv_result
    /\ UNCHANGED <<in_file, out_ok>>
    /\ UNCHANGED <<sobelVars, downVars, quantVars, compVars, fontVars, renderVars>>
    /\ UNCHANGED <<parVars, shapeVars>>

\* Lines 158-210: the tile path, the edge path and the compositor; then
\* arr_to_img is entered (line 212) and asks for the font (line 90).
Analyse ==
    /\ cv_pc = "analyse"
    /\ cv_pc' = "font"
    /\ fl_pc' = "read"
    /\ UNCHANGED <<cv_result, in_file, out_ok>>
    /\ UNCHANGED <<font_path, font_files, fl_result, cfg_parse, fb_parse, fallback_tries>>
    /\ UNCHANGED <<sobelVars, downVars, quantVars, compVars, renderVars>>
    /\ UNCHANGED <<parVars, shapeVars>>

\* Line 90 and line 212: load_font_from_settings(..)? inside arr_to_img(..)?
FontLoaded ==
    /\ cv_pc = "font"
    /\ fl_pc = "done"
    /\ IF fl_result \in {"FileError", "InvalidFont"}
       THEN cv_pc' = "returned" /\ cv_result' = fl_result
       ELSE cv_pc' = "save" /\ UNCHANGED cv_result
    /\ UNCHANGED <<in_file, out_ok>>
    /\ UNCHANGED <<sobelVars, downVars, quantVars, compVars, fontVars, renderVars>>
    /\ UNCHANGED <<parVars, shapeVars>>

\* Lines 215-217: ascii_img.save(out)?; Ok(())
Save ==
    /\ cv_pc = "save"
    /\ cv_pc' = "returned"
    /\ cv_result' = IF out_ok THEN "Ok" ELSE "ImageError"
    /\ UNCHANGED <<in_file, out_ok>>
    /\ UNCHANGED <<sobelVars, downVars, quantVars, compVars, fontVars, renderVars>>
    /\ UNCHANGED <<parVars, shapeVars>>

ConvInit ==
    /\ cv_pc = "open"
    /\ cv_result = "none"
    /\ in_file \in InFiles
    /\ out_ok \in BOOLEAN

ConvIdle ==
    /\ cv_pc = "idle"
    /\ cv_result = "none"
    /\ in_file = "image"
    /\ out_ok = TRUE

(***************************************************************************)
(* Converter::arr_to_img (lines 79-138)                                    *)
(*                                                                         *)
(* A pixel's colour stands for what draw_text_mut leaves there: the        *)
(* background, or the ink of the glyph of the cell that covers it.         *)
(***************************************************************************)
Bg == "bg"

RenderGlyphs == {" ", "|"}

\* Pixels of a buffer w wide and h high, as <<x, y>>.
Pixels(w, h) == (0 .. w - 1) \X (0 .. h - 1)

ImgWidth == r_shape[2] * font_size
ImgHeight == r_shape[1] * font_size

\* Lines 102-120: the row buffer of character row y after every glyph of the
\* row is drawn at x_pos = x * font_size, y_pos = 0.
DrawnRow(y) ==
    [q \in Pixels(ImgWidth, font_size) |->
        LET ch == r_arr[<<y, q[1] \div font_size>>]
        IN  IF ch = " " THEN Bg ELSE ch]

\* Variant of the offset: the row index is not scaled by the font size.
StartYUnscaled(y, fs) == y

\* Line 125: start_y = *y as u32 * font_size
StartY(y, fs) == y * fs

\* Lines 102-120: the worker of row y draws its row into its own buffer.
DrawRow ==
    /\ \E y \in DOMAIN row_pc :
        /\ row_pc[y] = "draw"
        /\ local_bufr' = [local_bufr EXCEPT ![y] = DrawnRow(y)]
        /\ row_pc' = [row_pc EXCEPT ![y] = "merge"]
    /\ UNCHANGED <<r_shape, font_size, r_arr, ascii_bufr, put_count, merge_order, r_panic>>
    /\ UNCHANGED <<sobelVars, downVars, quantVars, compVars, convVars, fontVars>>
    /\ UNCHANGED <<parVars, shapeVars>>

\* Lines 122-130: the worker of row y takes the mutex and copies its row
\* buffer into the shared image; the guard is released when the closure ends.
MergeRow ==
    /\ ~r_panic
    /\ \E y \in DOMAIN row_pc :
        /\ row_pc[y] = "merge"
        /\ LET start_y == StartY(y, font_size)
               Target(q) == <<q[1], q[2] + start_y>>
               src == DOMAIN local_bufr[y]
               hit(p) == {q \in src : Target(q) = p}
           IN  IF \E q \in src : Target(q) \notin DOMAIN ascii_bufr
               THEN \* ImageBuffer::put_pixel panics out of bounds
                    /\ r_panic' = TRUE
                    /\ UNCHANGED <<ascii_bufr, put_count>>
               ELSE /\ ascii_bufr' = [p \in DOMAIN ascii_bufr |->
                                        IF hit(p) # {}
                                        THEN local_bufr[y][CHOOSE q \in hit(p) : TRUE]
                                        ELSE ascii_bufr[p]]
                    /\ put_count' = [p \in DOMAIN put_count |->
                                        put_count[p] + Cardinality(hit(p))]
                    /\ UNCHANGED r_panic
        /\ row_pc' = [row_pc EXCEPT ![y] = "done"]
        /\ merge_order' = Append(merge_order, y)
    /\ UNCHANGED <<r_shape, font_size, r_arr, local_bufr>>
    /\ UNCHANGED <<sobelVars, downVars, quantVars, compVars, convVars, fontVars>>
    /\ UNCHANGED <<parVars, shapeVars>>

\* Lines 84-96: the shared image filled with the background, one worker per
\* character row.
RenderInit ==
    /\ r_shape \in (1 .. MaxCharRows) \X (1 .. MaxCharCols)
    /\ font_size \in 1 .. MaxFont
    /\ r_arr \in [Cells(r_shape) -> RenderGlyphs]
    /\ row_pc = [y \in 0 .. r_shape[1] - 1 |-> "draw"]
    /\ local_bufr = [y \in 0 .. r_shape[1] - 1 |-> NoGrid]
    /\ ascii_bufr = [p \in Pixels(r_shape[2] * font_size, r_shape[1] * font_size) |-> Bg]
    /\ put_count = [p \in Pixels(r_shape[2] * font_size, r_shape[1] * font_size) |-> 0]
    /\ merge_order = <<>>
    /\ r_panic = FALSE

RenderIdle ==
    /\ r_shape = <<0, 0>>
    /\ font_size = 1
    /\ r_arr = NoGrid
    /\ row_pc = <<>>
    /\ local_bufr = <<>>
    /\ ascii_bufr = NoGrid
    /\ put_count = NoGrid
    /\ merge_order = <<>>
    /\ r_panic = FALSE

(***************************************************************************)
(* Converter::convert_img, the shapes of its buffers (lines 158-210)       *)
(*                                                                         *)
(* Only the dimensions are kept: of the source image, of the resized image *)
(* and its tile grid, of the edge-class buffer, and of the grid that       *)
(* hist_downscale returns.  The conversions u32 -> f32 round to the 24-bit *)
(* significand of f32, to nearest, ties to even.                           *)
(***************************************************************************)
RECURSIVE Log2Floor(_)
Log2Floor(n) == IF n < 2 THEN 0 ELSE 1 + Log2Floor(n \div 2)

\* num / den rounded to the nearest integer, ties to the even one.
RoundEven(num, den) ==
    LET t == num \div den
        r == num % den
    IN  IF 2 * r < den THEN t
        ELSE IF 2 * r > den THEN t + 1
        ELSE IF t % 2 = 0 THEN t ELSE t + 1

\* `n as f32` for a u32 n: exact below 2^24, else rounded to a multiple of
\* the spacing of f32 at n.
ToF32(n) ==
    IF n < 2 ^ F32Bits THEN n
    ELSE LET u == 2 ^ (Log2Floor(n) - (F32Bits - 1)) IN RoundEven(n, u) * u

\* (a / b).floor() for f32 values a, b that are positive integers: the
\* quotient is rounded to f32 before floor().  For a < b the quotient is at
\* most 1 - 1/b, which no b of the model rounds up to 1.
DivF32Floor(a, b) ==
    LET q == a \div b
        e == Log2Floor(q)
    IN  IF q = 0 THEN 0
        ELSE IF e >= F32Bits - 1
        THEN LET u == 2 ^ (e - (F32Bits - 1)) IN RoundEven(a, b * u) * u
        ELSE LET k == (F32Bits - 1) - e IN RoundEven(a * 2 ^ k, b) \div 2 ^ k

\* (ori_w / font_size as f32).floor() as u32, with ori_w = width as f32
NewDim(n, fs) == DivF32Floor(ToF32(n), ToF32(fs))

\* bufr_to_arr: a buffer of width w and height h becomes an array of shape (h, w).
BufrToArrShape(w, h) == <<h, w>>

\* The slice k*ts .. (k+1)*ts of an axis of length n is taken without a
\* panic iff its end is within the axis.
SliceInside(k, ts, n) == SliceBound(k, ts) <= SliceBound(k + 1, ts) /\ SliceBound(k + 1, ts) <= n

\* Lines 158-162: new_w and new_h.
ComputeNewSize ==
    /\ sh_pc = "start"
    /\ new_w' = NewDim(img_size[1], sh_font_size)
    /\ new_h' = NewDim(img_size[2], sh_font_size)
    /\ sh_pc' = "resize"
    /\ UNCHANGED <<img_size, sh_font_size, tile_shape, edge_shape, grid_shape, sh_result>>
    /\ UNCHANGED <<sobelVars, downVars, quantVars, compVars, convVars, fontVars,
                   renderVars, parVars>>

\* Lines 166-181: resize_exact(new_w, new_h), to_luma8, bufr_to_arr, mapv.
ResizeTiles ==
    /\ sh_pc = "resize"
    /\ tile_shape' = BufrToArrShape(new_w, new_h)
    /\ sh_pc' = "edges"
    /\ UNCHANGED <<img_size, sh_font_size, new_w, new_h, edge_shape, grid_shape, sh_result>>
    /\ UNCHANGED <<sobelVars, downVars, quantVars, compVars, convVars, fontVars,
                   renderVars, parVars>>

\* Lines 184-192: the edge classes of the full-size grayscale image; the
\* preprocessors and Sobel::apply keep the dimensions.
DetectEdges ==
    /\ sh_pc = "edges"
    /\ edge_shape' = BufrToArrShape(img_size[1], img_size[2])
    /\ sh_pc' = "downscale"
    /\ UNCHANGED <<img_size, sh_font_size, new_w, new_h, tile_shape, grid_shape, sh_result>>
    /\ UNCHANGED <<sobelVars, downVars, quantVars, compVars, convVars, fontVars,
                   renderVars, parVars>>

\* Lines 195-201: hist_downscale(&qt_edge_arr, font_size, .., (new_h, new_w));
\* a slice that leaves the buffer panics (edge_processor.rs, lines 32-35).
Downscale ==
    /\ sh_pc = "downscale"
    /\ IF /\ \A i \in 0 .. new_h - 1 : SliceInside(i, sh_font_size, edge_shape[1])
          /\ \A j \in 0 .. new_w - 1 : SliceInside(j, sh_font_size, edge_shape[2])
       THEN /\ grid_shape' = <<new_h, new_w>>
            /\ sh_pc' = "zip"
            /\ UNCHANGED sh_result
       ELSE /\ sh_result' = "panic"
            /\ sh_pc' = "end"
            /\ UNCHANGED grid_shape
    /\ UNCHANGED <<img_size, sh_font_size, new_w, new_h, tile_shape, edge_shape>>
    /\ UNCHANGED <<sobelVars, downVars, quantVars, compVars, convVars, fontVars,
                   renderVars, parVars>>

\* Lines 204-210: Zip::from(&qt_tile_arr).and(&mut ds_edge_arr) panics unless
\* the shapes are equal.
ZipGrids ==
    /\ sh_pc = "zip"
    /\ sh_result' = IF tile_shape = grid_shape THEN "ok" ELSE "panic"
    /\ sh_pc' = "end"
    /\ UNCHANGED <<img_size, sh_font_size, new_w, new_h, tile_shape, edge_shape, grid_shape>>
    /\ UNCHANGED <<sobelVars, downVars, quantVars, compVars, convVars, fontVars,
                   renderVars, parVars>>

\* Images wider than f32 counts exactly: <<width, height, font_size>>.
WideImages == {<<2 ^ F32Bits + 3, 4, 4>>, <<2 ^ F32Bits + 3, 20, 20>>}

\* The source images and font sizes tried: every width and height up to
\* MaxSide with every font size up to MaxCell that fits, and the wide images.
ShapeInit ==
    /\ \/ /\ img_size \in (1 .. MaxSide) \X (1 .. MaxSide)
          /\ sh_font_size \in 1 .. MaxCell
          /\ img_size[1] >= sh_font_size
          /\ img_size[2] >= sh_font_size
       \/ \E x \in WideImages :
              /\ img_size = <<x[1], x[2]>>
              /\ sh_font_size = x[3]
    /\ sh_pc = "start"
    /\ new_w = 0
    /\ new_h = 0
    /\ tile_shape = <<0, 0>>
    /\ edge_shape = <<0, 0>>
    /\ grid_shape = <<0, 0>>
    /\ sh_result = "none"

ShapeIdle ==
    /\ img_size = <<0, 0>>
    /\ sh_font_size = 1
    /\ sh_pc = "end"
    /\ new_w = 0
    /\ new_h = 0
    /\ tile_shape = <<0, 0>>
    /\ edge_shape = <<0, 0>>
    /\ grid_shape = <<0, 0>>
    /\ sh_result = "none"

(***************************************************************************)
(* Specifications                                                          *)
(***************************************************************************)
\* convert_img with its font loader, on every input file, font set-up and
\* output.
Init ==
    ConvInit /\ FontInit /\ SobelIdle /\ DownIdle /\ QuantIdle /\ CompIdle /\ RenderIdle /\ ParIdle
    /\ ShapeIdle
Next ==
    \/ OpenInput \/ GuessFormat \/ Decode \/ Analyse
    \/ FontReadConfigured \/ FontParseConfigured
    \/ FontReadFallback \/ FontParseFallback
    \/ FontLoaded \/ Save
Spec == Init /\ [][Next]_vars

InitSobel ==
    SobelInit /\ DownIdle /\ QuantIdle /\ CompIdle /\ ConvIdle /\ FontIdle /\ RenderIdle /\ ParIdle
    /\ ShapeIdle
NextSobel == Gradients \/ Theta \/ ApplyMask \/ SobelReturn
SpecSobel == InitSobel /\ [][NextSobel]_vars

InitClassify ==
    ClassifyInit /\ DownIdle /\ QuantIdle /\ CompIdle /\ ConvIdle /\ FontIdle /\ RenderIdle /\ ParIdle
    /\ ShapeIdle
NextClassify == ApplyMask \/ SobelReturn
SpecClassify == InitClassify /\ [][NextClassify]_vars

InitDown ==
    DownInit /\ SobelIdle /\ QuantIdle /\ CompIdle /\ ConvIdle /\ FontIdle /\ RenderIdle /\ ParIdle
    /\ ShapeIdle
NextDown == StartCell \/ ScanPixel \/ GateWrite
SpecDown == InitDown /\ [][NextDown]_vars

InitQuant ==
    QuantInit /\ SobelIdle /\ DownIdle /\ CompIdle /\ ConvIdle /\ FontIdle /\ RenderIdle /\ ParIdle
    /\ ShapeIdle
NextQuant == Quantize
SpecQuant == InitQuant /\ [][NextQuant]_vars

InitComp ==
    CompInit /\ SobelIdle /\ DownIdle /\ QuantIdle /\ ConvIdle /\ FontIdle /\ RenderIdle /\ ParIdle
    /\ ShapeIdle
NextComp == MapEdge \/ Combine \/ CombineDone
SpecComp == InitComp /\ [][NextComp]_vars

InitRender ==
    RenderInit /\ SobelIdle /\ DownIdle /\ QuantIdle /\ CompIdle /\ ConvIdle /\ FontIdle /\ ParIdle
    /\ ShapeIdle
NextRender == DrawRow \/ MergeRow
SpecRender == InitRender /\ [][NextRender]_vars

\* hist_downscale with one worker per cell.  rayon keeps running a closure
\* that can take a step, and a guard is dropped at the end of its block, so
\* a step that stays possible is eventually taken.
InitPar ==
    ParInit /\ SobelIdle /\ QuantIdle /\ CompIdle /\ ConvIdle /\ FontIdle /\ RenderIdle
    /\ ShapeIdle
NextPar == ScanTileOf \/ Lock \/ WriteUnlock \/ ParReturn
SpecPar == InitPar /\ [][NextPar]_vars /\ WF_vars(NextPar)

InitShape ==
    ShapeInit /\ SobelIdle /\ DownIdle /\ QuantIdle /\ CompIdle /\ ConvIdle /\ FontIdle
    /\ RenderIdle /\ ParIdle
NextShape == ComputeNewSize \/ ResizeTiles \/ DetectEdges \/ Downscale \/ ZipGrids
SpecShape == InitShape /\ [][NextShape]_vars

(***************************************************************************)
(* Properties of Sobel::apply                                              *)
(***************************************************************************)
\* The five buckets of the classification table, read as a partition:
\* the two diagonal buckets exclude the none, vertical and horizontal ranges.
TableNone(x) == x = Half
TableVert(x) == T095 <= x /\ x <= One
TableHori(x) == (T025 <= x /\ x < T027) \/ (T075 <= x /\ x < T077)
TableDiag1(x) ==
    /\ (0 <= x /\ x < T028) \/ (T055 <= x /\ x < T078)
    /\ ~TableNone(x) /\ ~TableVert(x) /\ ~TableHori(x)
TableDiag2(x) ==
    /\ (T028 <= x /\ x < T055) \/ (T078 <= x /\ x < One)
    /\ ~TableNone(x) /\ ~TableVert(x) /\ ~TableHori(x)

TableClass(x) ==
    CASE TableNone(x)  -> 0
      [] TableVert(x)  -> 2
      [] TableHori(x)  -> 1
      [] TableDiag1(x) -> 3
      [] TableDiag2(x) -> 4

\* Number of the code's five masks that a theta_norm value satisfies.
MasksHit(x) == Cardinality({k \in 1 .. Len(MaskValues) : MaskAt(k, x)})

\* C1: when Sobel::apply returns, every pixel carries the class its
\* theta_norm has in the table (0.5 -> 0, [0.95, 1.0] -> 2, ...), and its
\* theta_norm satisfies exactly one of the five bucket predicates.
C1_TablePartition ==
    stage = "done" =>
        \A p \in Pix(dims) :
            /\ edge_mapping[p] = TableClass(theta_arr_norm[p])
            /\ MasksHit(theta_arr_norm[p]) = 1

\* The black-and-white image with one hard vertical edge: left half 0,
\* right half 255.
VerticalEdgeImage == [p \in Pix(<<ImgH, ImgW>>) |-> IF p[2] < ImgW \div 2 THEN 0 ELSE 255]

\* The two columns that touch the boundary.
BoundaryCols == {ImgW \div 2 - 1, ImgW \div 2}

\* C2: for the image with a single hard vertical edge (left half 0, right
\* half 255) the edge-class buffer returned by Sobel::apply holds the class
\* vertical (2) down a column along the boundary.
C2_VerticalEdgeIsVertical ==
    (stage = "done" /\ bufr = VerticalEdgeImage) =>
        \E c \in BoundaryCols :
            \A r \in 0 .. ImgH - 1 : edge_mapping[<<r, c>>] = 2

(***************************************************************************)
(* Properties of EdgeDownscaler::hist_downscale                            *)
(***************************************************************************)
ScanEnded == cur # NoCell /\ pos = tile_size * tile_size

HighestCount == CHOOSE n \in 0 .. pos : (\E c \in Classes : hist[c] = n)
                                         /\ (\A c \in Classes : hist[c] <= n)

MostFrequent == {c \in Classes : hist[c] = HighestCount}

\* The class of MostFrequent that the scan met first.
FirstSeenMostFrequent ==
    LET k == CHOOSE i \in 1 .. Len(seen_order) :
                 /\ seen_order[i] \in MostFrequent
                 /\ \A j \in 1 .. i - 1 : seen_order[j] \notin MostFrequent
    IN  seen_order[k]

\* C3 (as claimed): at the end of a block's scan the mode is a class of
\* highest frequency, and among the classes that tie for the highest
\* frequency it is the one the row-major scan saw first.
C3_TieFirstSeen ==
    ScanEnded => (max_val \in MostFrequent /\ max_val = FirstSeenMostFrequent)

\* A scan step: one more pixel of the running closure's block is read.
ScanStep == cur # NoCell /\ cur' = cur /\ pos' = pos + 1

\* C3 (amended): throughout a block's scan the mode is a class of highest
\* frequency with max_count its count, and a scan step replaces the mode only
\* by a class whose count is then strictly above every other count: a class
\* that only draws level never displaces the mode, so among tied classes the
\* mode is the one whose count reached the highest frequency first.
C3_ModeFirstToReachMax ==
    /\ [](cur # NoCell /\ pos > 0 =>
            max_val \in MostFrequent /\ max_count = hist[max_val])
    /\ [][ScanStep /\ max_val' # max_val =>
            \A c \in Classes \ {max_val'} : hist'[c] < hist'[max_val']]_vars

\* C3 witness: a finished scan in which two classes tie for the highest
\* frequency and the mode is not the one seen first.
C3_Witness ==
    /\ ScanEnded
    /\ Cardinality(MostFrequent) >= 2
    /\ max_val \in MostFrequent
    /\ max_val # FirstSeenMostFrequent

\* The end of a closure: the gate is evaluated and the cell possibly written.
GateStep == cur # NoCell /\ cur' = NoCell

\* C4: the closure of cell (i, j) leaves the grid with that cell set to the
\* block's mode exactly when distinct / (tile_size * tile_size) >= t, and
\* with the cell at 0 otherwise (no other cell changes); with t = 0 the cell
\* is always the block's mode.
C4_GateSetsMode ==
    [][GateStep =>
        /\ ds_edge_arr' =
             [ds_edge_arr EXCEPT ![cur] =
                 IF Distinct(hist) * thres_ratio[2]
                      >= thres_ratio[1] * tile_size * tile_size
                 THEN max_val ELSE 0]
        /\ (thres_ratio[1] = 0 => ds_edge_arr'[cur] = max_val)]_vars

\* C4 witness: t = 1/2, blocks of 2 x 2; every closure has ended, the last
\* block held one class other than 0 (density 1/4 < t, cell left at 0) and
\* another cell passed the gate with an edge class.
C4_Witness ==
    /\ pending = {} /\ cur = NoCell /\ pos = tile_size * tile_size
    /\ thres_ratio = <<1, 2>> /\ tile_size = 2
    /\ Distinct(hist) = 1 /\ max_val # 0
    /\ \E c \in Cells(new_size) : ds_edge_arr[c] # 0
    /\ \E c \in Cells(new_size) : ds_edge_arr[c] = 0

\* C5: with t = 1 and more than 5 pixels per block no cell passes the gate:
\* the output grid is all 0 at every moment of the call.
C5_ThresholdOneAllNone ==
    (thres_ratio = <<1, 1>> /\ tile_size * tile_size > 5) =>
        \A c \in Cells(new_size) : ds_edge_arr[c] = 0

\* C5 witness: t = 1, a block of more than 5 pixels holding all five classes
\* with a mode other than 0, every closure ended.
C5_Witness ==
    /\ pending = {} /\ cur = NoCell /\ pos = tile_size * tile_size
    /\ thres_ratio = <<1, 1>> /\ tile_size * tile_size > 5
    /\ Distinct(hist) = 5 /\ max_val # 0

(***************************************************************************)
(* Properties of the luminance quantizer                                   *)
(***************************************************************************)
\* C6: for every palette size N >= 1 the quantizer returns an index within
\* 0 .. N-1 for every pixel value (no overflow, no out-of-range index),
\* index 0 for pixel value 0 and index N-1 for pixel value 255.
C6_QuantizerBoundaries ==
    (q_stage = "done" /\ tile_len >= 1) =>
        /\ q_result = "ok"
        /\ q_index \in 0 .. tile_len - 1
        /\ (px = 0 => q_index = 0)
        /\ (px = MaxPx => q_index = tile_len - 1)

(***************************************************************************)
(* Properties of the compositor                                            *)
(***************************************************************************)
\* C7: every cell the compositor has visited holds the cell's tile glyph
\* when its downscaled edge class is 0 and the edge glyph edge[class] when
\* the class is 1..4, whatever the tile glyph is.
C7_EdgeWins ==
    c_stage \in {"combine", "done"} =>
        \A c \in Cells(c_shape) \ c_todo :
            c_edge[c] = IF c_class[c] = 0 THEN qt_tile_arr[c]
                        ELSE EdgePalette[c_class[c] + 1]

\* C7 witness: edge classes [[0,1,0],[2,0,3],[0,0,4]] with all tile glyphs
\* '*' end as the edge glyphs at the non-zero positions and '*' elsewhere.
C7_Witness ==
    /\ c_stage = "done"
    /\ c_class = ExampleGrid(c_shape)
    /\ \A c \in Cells(c_shape) : qt_tile_arr[c] = "*"
    /\ c_edge[<<0, 0>>] = "*" /\ c_edge[<<0, 1>>] = "_" /\ c_edge[<<0, 2>>] = "*"
    /\ c_edge[<<1, 0>>] = "|" /\ c_edge[<<1, 1>>] = "*" /\ c_edge[<<1, 2>>] = "/"
    /\ c_edge[<<2, 0>>] = "*" /\ c_edge[<<2, 1>>] = "*" /\ c_edge[<<2, 2>>] = "\\"

(***************************************************************************)
(* Properties of convert_img and the font loader                           *)
(***************************************************************************)
Ended == cv_pc \in {"returned", "panicked"}

\* C8: a conversion always ends by returning to its caller, never
\* abnormally, and when the input file opens but is not a decodable image
\* (or its format cannot be determined) the value returned is ImageError.
C8_DecodeFailureIsImageError ==
    Ended =>
        /\ cv_result # "panic"
        /\ (in_file \in {"unknown_format", "undecodable"} => cv_result = "ImageError")

\* C10: the fallback font is read at most once, and only after the
\* configured font was read and failed to parse, in which case it is read
\* exactly once; InvalidFont is the result only when the fallback font
\* failed to parse; a configured font that parses is returned without a
\* read of the fallback.
C10_FallbackOnce ==
    /\ fallback_tries <= 1
    /\ (fallback_tries = 1 => cfg_parse = "failed")
    /\ (fl_pc = "done" /\ cfg_parse = "failed" => fallback_tries = 1)
    /\ (fl_result = "InvalidFont" => fb_parse = "failed" /\ cfg_parse = "failed")
    /\ (fl_pc = "done" /\ cfg_parse = "ok" =>
            fl_result = "configured" /\ fallback_tries = 0 /\ fb_parse = "untried")

\* C10 witness: the configured font was read and failed to parse, the
\* fallback was tried once, failed to parse too, and InvalidFont came back.
C10_Witness ==
    /\ fl_pc = "done"
    /\ font_path # DefaultFont
    /\ cfg_parse = "failed" /\ fb_parse = "failed"
    /\ fallback_tries = 1
    /\ fl_result = "InvalidFont"
    /\ cv_result = "InvalidFont"

(***************************************************************************)
(* Properties of arr_to_img                                                *)
(***************************************************************************)
AllMerged == \A y \in DOMAIN row_pc : row_pc[y] = "done"

\* The colour the glyph of the covering cell gives pixel p of the image.
CellColour(p) ==
    LET ch == r_arr[<<p[2] \div font_size, p[1] \div font_size>>]
    IN  IF ch = " " THEN Bg ELSE ch

\* C9: every row buffer is merged inside the rows*font_size by
\* cols*font_size image, no pixel is written by two rows, a merged row
\* occupies exactly the pixel rows [y*font_size, (y+1)*font_size), and once
\* all rows are merged the image is the same whatever order the rows took
\* the mutex in: every pixel shows the glyph of the cell that covers it.
C9_MergeOrderIrrelevant ==
    /\ ~r_panic
    /\ \A p \in DOMAIN put_count : put_count[p] <= 1
    /\ \A p \in DOMAIN put_count :
          put_count[p] = 1 <=> row_pc[p[2] \div font_size] = "done"
    /\ AllMerged => \A p \in DOMAIN ascii_bufr : ascii_bufr[p] = CellColour(p)

\* C9 witness: two rows of glyphs, not alike, font size 2, the lower row
\* merged before the upper one, and the image is the expected one.
C9_Witness ==
    /\ AllMerged
    /\ r_shape[1] = 2 /\ font_size = 2
    /\ merge_order = <<1, 0>>
    /\ \E c, d \in Cells(r_shape) : c[1] # d[1] /\ r_arr[c] # r_arr[d]
    /\ \A p \in DOMAIN ascii_bufr : ascii_bufr[p] = CellColour(p)

(***************************************************************************)
(* Properties of the parallel workers of hist_downscale                    *)
(***************************************************************************)
\* The input block of cell c: the pixels whose row and column, divided by
\* the side of a block, give c.
OwnBlock(c) ==
    {p \in DOMAIN qt_edge_arr : p[1] \div tile_size = c[1] /\ p[2] \div tile_size = c[2]}

\* The values of the input block of cell c, row by row.
BlockValues(c) ==
    [k \in 1 .. tile_size * tile_size |->
        qt_edge_arr[<<c[1] * tile_size + ((k - 1) \div tile_size),
                      c[2] * tile_size + ((k - 1) % tile_size)>>]]

\* The cells of the grid in row-major order.
RowMajor == [k \in 1 .. new_size[1] * new_size[2] |->
                <<(k - 1) \div new_size[2], (k - 1) % new_size[2]>>]

\* The grid after the closures of the first n cells in row-major order have
\* run one after the other.
RECURSIVE SequentialRun(_)
SequentialRun(n) ==
    IF n = 0 THEN [c \in Cells(new_size) |-> 0]
    ELSE LET g == SequentialRun(n - 1)
             c == RowMajor[n]
             loc == ScanTile(BlockValues(c), tile_size * tile_size)
         IN  IF PassesGate(loc.hist, tile_size, thres_ratio)
             THEN [g EXCEPT ![c] = loc.max_val]
             ELSE g

\* Every write so far was made by the worker of the written cell, no cell
\* was written twice, every worker read only the pixels of its own block,
\* and the grid returned is the grid of the sequential row-major run.
DisjointCells ==
    /\ \A k \in 1 .. Len(write_log) : write_log[k][2] = write_log[k][1]
    /\ \A k, l \in 1 .. Len(write_log) : k # l => write_log[k][2] # write_log[l][2]
    /\ \A c \in Cells(new_size) : w_read[c] \subseteq OwnBlock(c)
    /\ \A c, d \in Cells(new_size) : c # d => w_read[c] \cap w_read[d] = {}
    /\ mutex # NoCell => w_pc[mutex] = "write"
    /\ returned # NoGrid => returned = SequentialRun(new_size[1] * new_size[2])

\* C11: the workers of hist_downscale own disjoint output cells: each cell
\* is written at most once, only by the worker that computes it and only
\* from that cell's own input block; in every order of taking the mutex the
\* grid returned is the grid of a sequential row-major run; and no worker
\* blocks forever: every closure ends and the grid is returned.
C11_WorkersIndependent == []DisjointCells /\ <>(returned # NoGrid)

\* A run of three workers: the worker of (0, 0) fails the gate and writes
\* nothing, the worker of (0, 2) takes the mutex before the worker of (0, 1).
C11_Witness ==
    /\ returned # NoGrid
    /\ new_size = <<1, 3>>
    /\ Len(write_log) = 2
    /\ write_log[1][1] = <<0, 2>>
    /\ write_log[2][1] = <<0, 1>>
    /\ returned[<<0, 2>>] # 0

(***************************************************************************)
(* Properties of the shapes of convert_img                                 *)
(***************************************************************************)
\* C12: for a source image of H x W pixels and a cell size s with H >= s
\* and W >= s, the grid asked of the downscaler has shape
\* (floor(H/s), floor(W/s)), every block slice of a cell of that grid lies
\* inside the H x W edge-class buffer, so that no slice panics, and the
\* edge grid has the shape of the tile grid it is zipped with.
C12_SlicesInsideBuffer ==
    sh_pc # "start" =>
        /\ new_h = img_size[2] \div sh_font_size
        /\ new_w = img_size[1] \div sh_font_size
        /\ \A i \in 0 .. new_h - 1 : (i + 1) * sh_font_size <= img_size[2]
        /\ \A j \in 0 .. new_w - 1 : (j + 1) * sh_font_size <= img_size[1]
        /\ sh_result # "panic"
        /\ sh_result = "ok" => grid_shape = tile_shape

=============================================================================
